---- MODULE Spec2Model ----
(***************************************************************************)
(* A model of the chess backend: ChessPiece / ChessBoard of               *)
(* board_setup.py (board grid, legality test, move application, engine    *)
(* handshake and configuration) and the callers' view of each call.       *)
(***************************************************************************)
EXTENDS Integers, Sequences, FiniteSets, TLC

VARIABLES
    board,          \* self.board: row -> col -> piece or None
    current_turn,   \* self.current_turn
    pc,             \* position of the caller / of the constructor
    last,           \* the last call and what it returned to the caller
    moves,          \* number of accepted moves so far
    difficulty,     \* the difficulty argument of ChessBoard(...)
    search_depth,   \* self.search_depth (0 while the attribute is unset)
    engine_in,      \* the lines written to the engine's stdin, in order
    engine_out,     \* the lines the engine will still print on its stdout
    output          \* the last line read from the engine's stdout, stripped

vars == <<board, current_turn, pc, last, moves, difficulty, search_depth,
          engine_in, engine_out, output>>

-----------------------------------------------------------------------------
(* Bounds of the model *)

\* accepted moves explored from the initial position
MaxMoves == 2
\* lines the engine prints before the acknowledgment line
MaxNoise == 2
\* accepted moves explored from the position with a pawn one step from
\* the far row
FarRowMoves == 3

-----------------------------------------------------------------------------
(* ChessPiece and the initial board *)

\* range(8) of __init__ and setup_board
BoardSize == 8

Idx == 0 .. (BoardSize - 1)

Colors == {"white", "black"}

\* Python's None for an empty square
None ==
    [id |-> -1, color |-> "none", piece_type |-> "none", has_moved |-> FALSE]

\* what a subscript outside the list yields: the IndexError that escapes
Raised ==
    [id |-> -2, color |-> "IndexError", piece_type |-> "IndexError",
     has_moved |-> FALSE]

\* ChessPiece(color, piece_type); id stands for the object's identity
ChessPiece(id, color, piece_type) ==
    [id |-> id, color |-> color, piece_type |-> piece_type, has_moved |-> FALSE]

piece_order ==
    <<"rook", "knight", "bishop", "queen", "king", "bishop", "knight", "rook">>

\* the grid of __init__ filled by setup_board; the four pieces of a column
\* are created in the order of the loop body
setup_board ==
    [r \in Idx |-> [c \in Idx |->
        CASE r = 1 -> ChessPiece(4 * c, "black", "pawn")
          [] r = 0 -> ChessPiece(4 * c + 1, "black", piece_order[c + 1])
          [] r = 6 -> ChessPiece(4 * c + 2, "white", "pawn")
          [] r = 7 -> ChessPiece(4 * c + 3, "white", piece_order[c + 1])
          [] OTHER -> None]]

-----------------------------------------------------------------------------
(* Reading the grid *)

Abs(x) == IF x < 0 THEN -x ELSE x

Max(x, y) == IF x >= y THEN x ELSE y

\* a variant that forgets the lower bounds
is_valid_position_no_lower_bound(row, col) ==
    row < BoardSize /\ col < BoardSize

is_valid_position(row, col) ==
    0 <= row /\ row < BoardSize /\ 0 <= col /\ col < BoardSize

\* a Python list subscript: a negative index counts from the end, an index
\* outside -8 .. 7 raises
PyIndex(i) == IF i < 0 THEN i + BoardSize ELSE i

IndexInRange(i) == -BoardSize <= i /\ i < BoardSize

\* self.board[row][col]
Subscript(b, row, col) ==
    IF IndexInRange(row) /\ IndexInRange(col)
    THEN b[PyIndex(row)][PyIndex(col)]
    ELSE Raised

get_piece(b, row, col) ==
    IF is_valid_position(row, col) THEN Subscript(b, row, col) ELSE None

\* the subscripts get_piece applies to the grid
get_piece_touched(row, col) ==
    IF is_valid_position(row, col) THEN {<<row, col>>} ELSE {}

-----------------------------------------------------------------------------
(* is_valid_move: the shared preconditions and one rule per piece kind *)

Row(pos) == pos[1]

Col(pos) == pos[2]

\* a variant whose capture branch does not look at the destination
pawn_move_diagonal_unchecked(from_pos, to_pos, piece, target_piece) ==
    LET direction == IF piece.color = "black" THEN 1 ELSE -1
    IN  IF Col(to_pos) = Col(from_pos)
        THEN IF Row(to_pos) = Row(from_pos) + direction
             THEN target_piece = None
             ELSE IF ~piece.has_moved
                     /\ Row(to_pos) = Row(from_pos) + 2 * direction
                  THEN target_piece = None
                  ELSE FALSE
        ELSE Abs(Col(to_pos) - Col(from_pos)) = 1
             /\ Row(to_pos) = Row(from_pos) + direction

\* the pawn branch
pawn_move(from_pos, to_pos, piece, target_piece) ==
    LET direction == IF piece.color = "black" THEN 1 ELSE -1
    IN  IF Col(to_pos) = Col(from_pos)
        THEN IF Row(to_pos) = Row(from_pos) + direction
             THEN target_piece = None
             ELSE IF ~piece.has_moved
                     /\ Row(to_pos) = Row(from_pos) + 2 * direction
                  THEN target_piece = None
                  ELSE FALSE
        ELSE IF Abs(Col(to_pos) - Col(from_pos)) = 1
                /\ Row(to_pos) = Row(from_pos) + direction
             THEN target_piece # None
             ELSE FALSE

rook_move(from_pos, to_pos) ==
    Row(from_pos) = Row(to_pos) \/ Col(from_pos) = Col(to_pos)

\* a variant that adds the two distances
knight_move_by_sum(from_pos, to_pos) ==
    Abs(Row(from_pos) - Row(to_pos)) + Abs(Col(from_pos) - Col(to_pos)) = 3

knight_move(from_pos, to_pos) ==
    Abs(Row(from_pos) - Row(to_pos)) * Abs(Col(from_pos) - Col(to_pos)) = 2

bishop_move(from_pos, to_pos) ==
    Abs(Row(from_pos) - Row(to_pos)) = Abs(Col(from_pos) - Col(to_pos))

queen_move(from_pos, to_pos) ==
    (Row(from_pos) = Row(to_pos) \/ Col(from_pos) = Col(to_pos))
    \/ Abs(Row(from_pos) - Row(to_pos)) = Abs(Col(from_pos) - Col(to_pos))

king_move(from_pos, to_pos) ==
    Max(Abs(Row(from_pos) - Row(to_pos)), Abs(Col(from_pos) - Col(to_pos))) = 1

\* the dispatch on piece.piece_type
piece_rule(from_pos, to_pos, piece, target_piece) ==
    CASE piece.piece_type = "pawn" ->
            pawn_move(from_pos, to_pos, piece, target_piece)
      [] piece.piece_type = "rook" -> rook_move(from_pos, to_pos)
      [] piece.piece_type = "knight" -> knight_move(from_pos, to_pos)
      [] piece.piece_type = "bishop" -> bishop_move(from_pos, to_pos)
      [] piece.piece_type = "queen" -> queen_move(from_pos, to_pos)
      [] piece.piece_type = "king" -> king_move(from_pos, to_pos)
      [] OTHER -> FALSE

\* a variant without the same-colour test
same_color_target_ignored(piece, target_piece) == FALSE

\* target_piece and target_piece.color == piece.color
same_color_target(piece, target_piece) ==
    target_piece # None /\ target_piece.color = piece.color

is_valid_move(b, from_pos, to_pos, piece) ==
    LET target_piece == get_piece(b, Row(to_pos), Col(to_pos))
    IN  IF ~is_valid_position(Row(to_pos), Col(to_pos))
        THEN FALSE
        ELSE IF same_color_target(piece, target_piece)
             THEN FALSE
             ELSE piece_rule(from_pos, to_pos, piece, target_piece)

\* is_valid_move subscripts the grid once, through get_piece
is_valid_move_touched(to_pos) ==
    IF is_valid_position(Row(to_pos), Col(to_pos))
    THEN get_piece_touched(Row(to_pos), Col(to_pos))
    ELSE {}

\* an IndexError escapes is_valid_move when its subscript is out of range
is_valid_move_raises(b, to_pos) ==
    /\ is_valid_position(Row(to_pos), Col(to_pos))
    /\ get_piece(b, Row(to_pos), Col(to_pos)) = Raised

-----------------------------------------------------------------------------
(* make_move *)

MsgInvalidPosition == "Invalid position"

MsgNoPiece == "No piece at the starting position"

MsgWrongTurn(turn) == IF turn = "white" THEN "It's white's turn" ELSE "It's black's turn"

MsgInvalidMove == "Invalid move"

MsgSuccess == "Move successful"

MsgIndexError == "IndexError"

\* a variant that looks for the piece before it checks the bounds
make_move_message_piece_first(b, turn, from_pos, to_pos) ==
    LET piece == get_piece(b, Row(from_pos), Col(from_pos))
    IN  IF piece = None
        THEN MsgNoPiece
        ELSE IF ~(is_valid_position(Row(from_pos), Col(from_pos))
                  /\ is_valid_position(Row(to_pos), Col(to_pos)))
        THEN MsgInvalidPosition
        ELSE IF piece.color # turn
        THEN MsgWrongTurn(turn)
        ELSE IF is_valid_move(b, from_pos, to_pos, piece)
        THEN MsgSuccess
        ELSE MsgInvalidMove

\* the chain of checks of make_move, first applicable first
make_move_message(b, turn, from_pos, to_pos) ==
    LET piece == get_piece(b, Row(from_pos), Col(from_pos))
    IN  IF ~(is_valid_position(Row(from_pos), Col(from_pos))
             /\ is_valid_position(Row(to_pos), Col(to_pos)))
        THEN MsgInvalidPosition
        ELSE IF piece = Raised
        THEN MsgIndexError
        ELSE IF piece = None
        THEN MsgNoPiece
        ELSE IF piece.color # turn
        THEN MsgWrongTurn(turn)
        ELSE IF is_valid_move_raises(b, to_pos)
        THEN MsgIndexError
        ELSE IF is_valid_move(b, from_pos, to_pos, piece)
        THEN MsgSuccess
        ELSE MsgInvalidMove

\* a variant that does not clear the source square
execute_move_keeps_source(b, from_pos, to_pos, piece) ==
    [b EXCEPT ![PyIndex(Row(to_pos))][PyIndex(Col(to_pos))] =
                  [piece EXCEPT !.has_moved = TRUE]]

\* a variant that turns a pawn into a queen on the last row
execute_move_promoting(b, from_pos, to_pos, piece) ==
    LET promoted == IF piece.piece_type = "pawn"
                       /\ PyIndex(Row(to_pos)) \in {0, BoardSize - 1}
                    THEN [piece EXCEPT !.piece_type = "queen"] ELSE piece
        b1 == [b EXCEPT ![PyIndex(Row(to_pos))][PyIndex(Col(to_pos))] =
                           [promoted EXCEPT !.has_moved = TRUE]]
    IN  [b1 EXCEPT ![PyIndex(Row(from_pos))][PyIndex(Col(from_pos))] = None]

\* a variant that leaves has_moved as it is
execute_move_unmarked(b, from_pos, to_pos, piece) ==
    LET b1 == [b EXCEPT ![PyIndex(Row(to_pos))][PyIndex(Col(to_pos))] = piece]
    IN  [b1 EXCEPT ![PyIndex(Row(from_pos))][PyIndex(Col(from_pos))] = None]

\* the two writes to the grid and the write to the piece, in order
execute_move(b, from_pos, to_pos, piece) ==
    LET b1 == [b EXCEPT ![PyIndex(Row(to_pos))][PyIndex(Col(to_pos))] = piece]
        b2 == [b1 EXCEPT ![PyIndex(Row(from_pos))][PyIndex(Col(from_pos))] = None]
    IN  \* piece.has_moved = True acts on the object, wherever the grid holds it
        [r \in Idx |-> [c \in Idx |->
            IF b2[r][c].id = piece.id
            THEN [b2[r][c] EXCEPT !.has_moved = TRUE]
            ELSE b2[r][c]]]

\* a variant that hands the turn to black whoever moved
flip_turn_to_black(turn) == "black"

flip_turn(turn) == IF turn = "white" THEN "black" ELSE "white"

\* which messages come with success = True
is_success(message) == message = MsgSuccess

\* the subscripts make_move applies to the grid, reads and writes
make_move_touched(message, from_pos, to_pos) ==
    IF message = MsgInvalidPosition
    THEN {}
    ELSE get_piece_touched(Row(from_pos), Col(from_pos))
         \cup (IF message \in {MsgSuccess, MsgInvalidMove}
               THEN is_valid_move_touched(to_pos) ELSE {})
         \cup (IF is_success(message) THEN {to_pos, from_pos} ELSE {})

\* a variant that sets has_moved before it asks is_valid_move
make_move_marks_before_check(b, turn, from_pos, to_pos) ==
    LET message == make_move_message(b, turn, from_pos, to_pos)
        piece == get_piece(b, Row(from_pos), Col(from_pos))
    IN  [success |-> is_success(message),
         message |-> message,
         board |-> IF is_success(message)
                   THEN execute_move(b, from_pos, to_pos, piece)
                   ELSE IF message = MsgInvalidMove
                   THEN [b EXCEPT ![Row(from_pos)][Col(from_pos)].has_moved = TRUE]
                   ELSE b,
         turn |-> IF is_success(message) THEN flip_turn(turn) ELSE turn,
         touched |-> make_move_touched(message, from_pos, to_pos)]

\* make_move as a whole: what it returns and the state it leaves
make_move(b, turn, from_pos, to_pos) ==
    LET message == make_move_message(b, turn, from_pos, to_pos)
        piece == get_piece(b, Row(from_pos), Col(from_pos))
    IN  [success |-> is_success(message),
         message |-> message,
         board |-> IF is_success(message)
                   THEN execute_move(b, from_pos, to_pos, piece) ELSE b,
         turn |-> IF is_success(message) THEN flip_turn(turn) ELSE turn,
         touched |-> make_move_touched(message, from_pos, to_pos)]

-----------------------------------------------------------------------------
(* Python strings: a string is the sequence of its characters *)

\* the printable ASCII characters in code order, from the space (code 32);
\* the double quote, the backslash and the backtick are written by name
Ascii ==
    <<" ", "!", "dquote", "#", "$", "%", "&", "'", "(", ")", "*", "+", ",",
      "-", ".", "/", "0", "1", "2", "3", "4", "5", "6", "7", "8", "9", ":",
      ";", "<", "=", ">", "?", "@", "A", "B", "C", "D", "E", "F", "G", "H",
      "I", "J", "K", "L", "M", "N", "O", "P", "Q", "R", "S", "T", "U", "V",
      "W", "X", "Y", "Z", "[", "backslash", "]", "^", "_", "backtick", "a",
      "b", "c",
      "d", "e", "f", "g", "h", "i", "j", "k", "l", "m", "n", "o", "p", "q",
      "r", "s", "t", "u", "v", "w", "x", "y", "z", "{", "|", "}", "~">>

\* ord(ch)
ord(ch) == 31 + (CHOOSE i \in DOMAIN Ascii : Ascii[i] = ch)

\* chr(n)
chr(n) == Ascii[n - 31]

\* ch.lower()
lower(ch) ==
    IF ord("A") <= ord(ch) /\ ord(ch) <= ord("Z")
    THEN chr(ord(ch) + (ord("a") - ord("A")))
    ELSE ch

\* s.lower()
lower_str(s) == [i \in DOMAIN s |-> lower(s[i])]

DigitChars == <<"0", "1", "2", "3", "4", "5", "6", "7", "8", "9">>

\* int(ch) raises ValueError unless ch is a digit
int_raises(ch) == \A i \in DOMAIN DigitChars : DigitChars[i] # ch

\* int(ch) of one digit
int(ch) == (CHOOSE i \in DOMAIN DigitChars : DigitChars[i] = ch) - 1

\* str(n) of a natural number below one hundred
str(n) ==
    IF n < Len(DigitChars)
    THEN <<DigitChars[n + 1]>>
    ELSE <<DigitChars[(n \div Len(DigitChars)) + 1],
           DigitChars[(n % Len(DigitChars)) + 1]>>

\* sub in s
contains(s, sub) ==
    \E t \in {s} :
       \E i \in 0 .. (Len(t) - Len(sub)) : SubSeq(t, i + 1, i + Len(sub)) = sub

\* s.startswith(prefix)
startswith(s, prefix) ==
    Len(prefix) <= Len(s) /\ SubSeq(s, 1, Len(prefix)) = prefix

\* the whitespace the engine's lines hold
IsSpace(ch) == ch = " "

\* s.strip()
RECURSIVE strip(_)
strip(s) ==
    IF s = <<>> THEN s
    ELSE IF IsSpace(Head(s)) THEN strip(Tail(s))
    ELSE IF IsSpace(s[Len(s)]) THEN strip(SubSeq(s, 1, Len(s) - 1))
    ELSE s

\* the first word of a string that does not start with whitespace: the
\* characters before its first whitespace
first_word(s) ==
    LET spaces == {i \in DOMAIN s : IsSpace(s[i])}
    IN  IF spaces = {} THEN s
        ELSE SubSeq(s, 1, (CHOOSE i \in spaces : \A j \in spaces : i <= j) - 1)

\* s.split(): the words between runs of whitespace
RECURSIVE split(_)
split(s) ==
    IF s = <<>> THEN <<>>
    ELSE IF IsSpace(Head(s)) THEN split(Tail(s))
    ELSE LET word == first_word(s)
         IN  <<word>> \o split(SubSeq(s, Len(word) + 1, Len(s)))

\* sep.join(parts)
RECURSIVE join(_, _)
join(sep, parts) ==
    IF parts = <<>> THEN <<>>
    ELSE IF Len(parts) = 1 THEN parts[1]
    ELSE parts[1] \o sep \o join(sep, Tail(parts))

-----------------------------------------------------------------------------
(* The engine process and the constructor *)

Tiers == {"beginner", "intermediate", "professional", "top_star"}

\* a variant that takes the strength value from the depth column
skill_level_from_depth(d) ==
    CASE d = "beginner" -> 5
      [] d = "intermediate" -> 10
      [] d = "professional" -> 15
      [] d = "top_star" -> 20

\* DIFFICULTY_SETTINGS[difficulty]["skill_level"]
skill_level(d) ==
    CASE d = "beginner" -> 3
      [] d = "intermediate" -> 10
      [] d = "professional" -> 15
      [] d = "top_star" -> 20

\* DIFFICULTY_SETTINGS[difficulty]["depth"]
depth(d) ==
    CASE d = "beginner" -> 5
      [] d = "intermediate" -> 10
      [] d = "professional" -> 15
      [] d = "top_star" -> 20

\* "uci"
CmdUci == <<"u", "c", "i">>

\* "setoption name Skill Level value "
SkillLevelPrefix ==
    <<"s", "e", "t", "o", "p", "t", "i", "o", "n", " ", "n", "a", "m", "e",
      " ", "S", "k", "i", "l", "l", " ", "L", "e", "v", "e", "l", " ", "v",
      "a", "l", "u", "e", " ">>

\* "setoption name Skill Level value {}".format(settings["skill_level"])
CmdSkill(d) == SkillLevelPrefix \o str(skill_level(d))

\* "setoption name UCI_LimitStrength value true"
CmdLimit ==
    <<"s", "e", "t", "o", "p", "t", "i", "o", "n", " ", "n", "a", "m", "e",
      " ", "U", "C", "I", "_", "L", "i", "m", "i", "t", "S", "t", "r", "e",
      "n", "g", "t", "h", " ", "v", "a", "l", "u", "e", " ", "t", "r", "u",
      "e">>

\* the commands configure_difficulty sends, in order
configure_commands(d) == <<CmdSkill(d), CmdLimit>>

\* lines an engine prints that do not hold the acknowledgment token:
\* "id name Stockfish" and "option name Hash"
NoiseLines ==
    {<<"i", "d", " ", "n", "a", "m", "e", " ", "S", "t", "o", "c", "k",
       "f", "i", "s", "h">>,
     <<"o", "p", "t", "i", "o", "n", " ", "n", "a", "m", "e", " ", "H",
       "a", "s", "h">>}

\* "uciok"
TokenUciok == <<"u", "c", "i", "o", "k">>

\* lines that hold the token "uciok"
AckLines == {TokenUciok}

\* "uciok" in output
has_uciok(line) == contains(line, TokenUciok)

\* the outcome of a call that has not been made
NoCall ==
    [op |-> "none", from_pos |-> <<0, 0>>, to_pos |-> <<0, 0>>,
     success |-> FALSE, message |-> "", piece |-> None, target |-> None,
     touched |-> {}, text |-> <<>>]

\* the grid as __init__ creates it, before setup_board
EmptyBoard == [r \in Idx |-> [c \in Idx |-> None]]

\* the default value of the difficulty parameter
DefaultDifficulty == "intermediate"

-----------------------------------------------------------------------------
(* Callers' inputs *)

\* the files the callers name: a to e, one for each kind of piece on the
\* back rank (rook, knight, bishop, queen, king), with their pawns
InputFiles == 0 .. 4

InSquares == Idx \X InputFiles

\* one square beyond each edge of the grid

OutSquares == {<<-1, 0>>, <<BoardSize, 0>>, <<0, -1>>, <<0, BoardSize>>}

InputSquares == InSquares \cup OutSquares

-----------------------------------------------------------------------------
(* The calls on a constructed board *)

\* a ChessBoard constructed with the default difficulty, its engine
\* handshake and configuration done
Init ==
    /\ board = setup_board
    /\ current_turn = "white"
    /\ pc = "idle"
    /\ last = NoCall
    /\ moves = 0
    /\ difficulty = DefaultDifficulty
    /\ search_depth = depth(DefaultDifficulty)
    /\ engine_in = <<CmdUci>> \o configure_commands(DefaultDifficulty)
    /\ engine_out = <<>>
    /\ output = TokenUciok

\* a caller calls make_move(from_pos, to_pos)
MakeMove ==
    /\ pc = "idle"
    /\ moves < MaxMoves
    /\ \E from_pos \in InputSquares, to_pos \in InputSquares :
       \E r \in {make_move(board, current_turn, from_pos, to_pos)} :
          /\ board' = r.board
          /\ current_turn' = r.turn
          /\ moves' = IF r.success THEN moves + 1 ELSE moves
          /\ last' = [op |-> "make_move", from_pos |-> from_pos,
                      to_pos |-> to_pos, success |-> r.success,
                      message |-> r.message,
                      piece |-> get_piece(board, Row(from_pos), Col(from_pos)),
                      target |-> get_piece(board, Row(to_pos), Col(to_pos)),
                      touched |-> r.touched, text |-> <<>>]
    /\ pc' = "returned"
    /\ UNCHANGED <<difficulty, search_depth, engine_in, engine_out, output>>

\* a caller calls get_piece(row, col)
GetPiece ==
    /\ pc = "idle"
    /\ moves < MaxMoves
    /\ \E pos \in InputSquares :
          last' = [NoCall EXCEPT
                      !.op = "get_piece", !.from_pos = pos, !.success = TRUE,
                      !.piece = get_piece(board, Row(pos), Col(pos)),
                      !.touched = get_piece_touched(Row(pos), Col(pos))]
    /\ pc' = "returned"
    /\ UNCHANGED <<board, current_turn, moves, difficulty, search_depth,
                   engine_in, engine_out, output>>

\* the caller has read the result and is ready for its next call
Resume ==
    /\ pc = "returned"
    /\ pc' = "idle"
    /\ last' = NoCall
    /\ UNCHANGED <<board, current_turn, moves, difficulty, search_depth,
                   engine_in, engine_out, output>>

Next ==
    \/ MakeMove
    \/ GetPiece
    \/ Resume

Spec == Init /\ [][Next]_vars

-----------------------------------------------------------------------------
(* The calls on a board where a pawn is one step from the far row *)

\* eight accepted moves from the initial position: a2-a4, g8-f6, a4-a5,
\* f6-g8, a5-a6, g8-f6, a6xb7, f6-g8
Opening ==
    <<<<(<<6, 0>>), (<<4, 0>>)>>, <<(<<0, 6>>), (<<2, 5>>)>>,
      <<(<<4, 0>>), (<<3, 0>>)>>, <<(<<2, 5>>), (<<0, 6>>)>>,
      <<(<<3, 0>>), (<<2, 0>>)>>, <<(<<0, 6>>), (<<2, 5>>)>>,
      <<(<<2, 0>>), (<<1, 1>>)>>, <<(<<2, 5>>), (<<0, 6>>)>>>>

\* the result of a sequence of make_move calls
RECURSIVE Play(_, _, _)
Play(b, turn, calls) ==
    IF calls = <<>>
    THEN [board |-> b, turn |-> turn, accepted |-> 0]
    ELSE LET r == make_move(b, turn, calls[1][1], calls[1][2])
             rest == Play(r.board, r.turn, Tail(calls))
         IN  [rest EXCEPT
                 !.accepted = rest.accepted + (IF r.success THEN 1 ELSE 0)]

\* the squares the callers name: files a to d of the three rows at the
\* black side, and one square beyond each edge
LateSquares == ((0 .. 2) \X (0 .. 3)) \cup OutSquares

\* a constructed ChessBoard after the calls of Opening
InitFarRow ==
    /\ \E played \in {Play(setup_board, "white", Opening)} :
          /\ board = played.board
          /\ current_turn = played.turn
          /\ moves = played.accepted
    /\ pc = "idle"
    /\ last = NoCall
    /\ difficulty = DefaultDifficulty
    /\ search_depth = depth(DefaultDifficulty)
    /\ engine_in = <<CmdUci>> \o configure_commands(DefaultDifficulty)
    /\ engine_out = <<>>
    /\ output = TokenUciok

\* a caller calls make_move(from_pos, to_pos)
MakeMoveLate ==
    /\ pc = "idle"
    /\ moves < Len(Opening) + FarRowMoves
    /\ \E from_pos \in LateSquares, to_pos \in LateSquares :
       \E r \in {make_move(board, current_turn, from_pos, to_pos)} :
          /\ board' = r.board
          /\ current_turn' = r.turn
          /\ moves' = IF r.success THEN moves + 1 ELSE moves
          /\ last' = [op |-> "make_move", from_pos |-> from_pos,
                      to_pos |-> to_pos, success |-> r.success,
                      message |-> r.message,
                      piece |-> get_piece(board, Row(from_pos), Col(from_pos)),
                      target |-> get_piece(board, Row(to_pos), Col(to_pos)),
                      touched |-> r.touched, text |-> <<>>]
    /\ pc' = "returned"
    /\ UNCHANGED <<difficulty, search_depth, engine_in, engine_out, output>>

NextFarRow ==
    \/ MakeMoveLate
    \/ Resume

FarRowSpec == InitFarRow /\ [][NextFarRow]_vars

-----------------------------------------------------------------------------
(* The constructor ChessBoard(stockfish_path, difficulty), step by step *)

\* difficulty arguments a caller may pass: the four tiers and one that is
\* not a key of DIFFICULTY_SETTINGS
DifficultyArgs == Tiers \cup {"expert"}

NoiseSeqs == UNION {[1 .. n -> NoiseLines] : n \in 0 .. MaxNoise}

\* what the engine prints after start-up: some lines without the token,
\* then the acknowledgment line, or nothing more (its stdout closes)
EngineScripts ==
    NoiseSeqs \cup {n \o <<a>> : n \in NoiseSeqs, a \in AckLines}

MsgNotFound == "Stockfish executable not found. Check your path."

MsgValueError ==
    "Invalid difficulty level. Choose from: ['beginner', 'intermediate', 'professional', 'top_star']"

\* __init__ has set its fields and run setup_board; initialize_stockfish
\* is about to start
InitSession ==
    /\ board = setup_board
    /\ current_turn = "white"
    /\ pc = "initialize_stockfish"
    /\ last = NoCall
    /\ moves = 0
    /\ difficulty \in DifficultyArgs
    /\ search_depth = 0
    /\ engine_in = <<>>
    /\ engine_out \in EngineScripts
    /\ output = <<>>

\* subprocess.Popen raises FileNotFoundError: no executable at the path
PopenFails ==
    /\ pc = "initialize_stockfish"
    /\ pc' = "failed"
    /\ last' = [NoCall EXCEPT !.op = "__init__", !.message = MsgNotFound]
    /\ UNCHANGED <<board, current_turn, moves, difficulty, search_depth,
                   engine_in, engine_out, output>>

\* the process starts and "uci" is written to its stdin
SendUci ==
    /\ pc = "initialize_stockfish"
    /\ engine_in' = Append(engine_in, CmdUci)
    /\ pc' = "wait_uciok"
    /\ UNCHANGED <<board, current_turn, last, moves, difficulty, search_depth,
                   engine_out, output>>

\* stdout.readline(): the next line, or the empty string once the stream
\* has ended
readline(stream) == IF stream = <<>> THEN <<>> ELSE Head(stream)

\* the stream after a readline()
after_readline(stream) == IF stream = <<>> THEN <<>> ELSE Tail(stream)

\* one turn of the loop reading the engine's stdout for "uciok"
ReadHandshakeLine ==
    /\ pc = "wait_uciok"
    /\ output' = strip(readline(engine_out))
    /\ engine_out' = after_readline(engine_out)
    /\ pc' = IF has_uciok(output')
             THEN "configure_difficulty" ELSE "wait_uciok"
    /\ UNCHANGED <<board, current_turn, last, moves, difficulty, search_depth,
                   engine_in>>

\* configure_difficulty: the membership test fails and ValueError escapes
\* the constructor
ConfigureRejects ==
    /\ pc = "configure_difficulty"
    /\ difficulty \notin Tiers
    /\ pc' = "failed"
    /\ last' = [NoCall EXCEPT !.op = "__init__", !.message = MsgValueError]
    /\ UNCHANGED <<board, current_turn, moves, difficulty, search_depth,
                   engine_in, engine_out, output>>

\* "go" in command: send_to_stockfish waits for a "bestmove" line
TokenGo == <<"g", "o">>

send_waits(command) == contains(command, TokenGo)

\* configure_difficulty: the first command of the loop is sent; it holds
\* no "go", so send_to_stockfish returns at once
SendSkillLevel ==
    /\ pc = "configure_difficulty"
    /\ difficulty \in Tiers
    /\ ~send_waits(configure_commands(difficulty)[1])
    /\ engine_in' = Append(engine_in, configure_commands(difficulty)[1])
    /\ pc' = "configure_limit"
    /\ UNCHANGED <<board, current_turn, last, moves, difficulty, search_depth,
                   engine_out, output>>

\* the second command is sent and search_depth is set
SendLimitStrength ==
    /\ pc = "configure_limit"
    /\ ~send_waits(configure_commands(difficulty)[2])
    /\ engine_in' = Append(engine_in, configure_commands(difficulty)[2])
    /\ search_depth' = depth(difficulty)
    /\ pc' = "main"
    /\ UNCHANGED <<board, current_turn, last, moves, difficulty, engine_out,
                   output>>

-----------------------------------------------------------------------------
(* get_fen and the move request *)

\* piece.piece_type[0]
first_letter(piece_type) ==
    CASE piece_type = "pawn" -> "p"
      [] piece_type = "rook" -> "r"
      [] piece_type = "knight" -> "k"
      [] piece_type = "bishop" -> "b"
      [] piece_type = "queen" -> "q"
      [] piece_type = "king" -> "k"

\* ch.upper()
upper(ch) ==
    IF ord("a") <= ord(ch) /\ ord(ch) <= ord("z")
    THEN chr(ord(ch) - (ord("a") - ord("A")))
    ELSE ch

\* a variant without the special case of the knight
fen_symbol_first_letter(piece) ==
    IF piece.color = "black"
    THEN lower(first_letter(piece.piece_type))
    ELSE upper(first_letter(piece.piece_type))

\* the symbol get_fen writes for a piece
fen_symbol(piece) ==
    IF piece.piece_type = "knight"
    THEN (IF piece.color = "black" THEN "n" ELSE "N")
    ELSE IF piece.color = "black"
    THEN lower(first_letter(piece.piece_type))
    ELSE upper(first_letter(piece.piece_type))

\* str(empty_count) when empty_count > 0
flush_empty(empty_count) ==
    IF empty_count > 0 THEN str(empty_count) ELSE <<>>

\* the inner loop of get_fen from column c on, empty_count squares pending
RECURSIVE fen_row_from(_, _, _)
fen_row_from(row, c, empty_count) ==
    IF c = BoardSize
    THEN flush_empty(empty_count)
    ELSE IF row[c] = None
    THEN fen_row_from(row, c + 1, empty_count + 1)
    ELSE flush_empty(empty_count) \o <<fen_symbol(row[c])>>
         \o fen_row_from(row, c + 1, 0)

\* fen_rows
fen_rows(b) == [i \in 1 .. BoardSize |-> fen_row_from(b[i - 1], 0, 0)]

\* a variant that always names white as the side to move
fen_turn_white(turn) == "w"

\* turn = "w" if self.current_turn == "white" else "b"
fen_turn(turn) == IF turn = "white" THEN "w" ELSE "b"

\* " KQkq - 0 1"
FenTail == <<" ", "K", "Q", "k", "q", " ", "-", " ", "0", " ", "1">>

get_fen(b, turn) ==
    join(<<"/">>, fen_rows(b)) \o <<" ", fen_turn(turn)>> \o FenTail

\* "position fen "
PositionPrefix == <<"p", "o", "s", "i", "t", "i", "o", "n", " ", "f", "e", "n", " ">>

\* "go depth "
GoPrefix == <<"g", "o", " ", "d", "e", "p", "t", "h", " ">>

\* f"position fen {fen}"
position_command(fen) == PositionPrefix \o fen

\* f"go depth {self.search_depth}"
go_command(d) == GoPrefix \o str(d)

\* "bestmove"
TokenBestmove == <<"b", "e", "s", "t", "m", "o", "v", "e">>

\* int(move[i]) for a rank, ord(move[i]) for a file
decode_raises(move) ==
    IF Len(move) < 2 THEN "IndexError"
    ELSE IF int_raises(move[2]) THEN "ValueError"
    ELSE IF Len(move) < 4 THEN "IndexError"
    ELSE IF int_raises(move[4]) THEN "ValueError"
    ELSE ""

\* (8 - int(move[1]), ord(move[0]) - ord("a"))
decode_from(move) == <<BoardSize - int(move[2]), ord(move[1]) - ord("a")>>

\* (8 - int(move[3]), ord(move[2]) - ord("a"))
decode_to(move) == <<BoardSize - int(move[4]), ord(move[3]) - ord("a")>>

-----------------------------------------------------------------------------
(* The session loop of main() *)

\* "quit"
TokenQuit == <<"q", "u", "i", "t">>

\* what the player types at a prompt: e2, E4, e3, e7, e9, the empty line,
\* e, ex and quit
HumanInputs ==
    {<<"e", "2">>, <<"E", "4">>, <<"e", "3">>, <<"e", "7">>, <<"e", "9">>,
     <<>>, <<"e">>, <<"e", "x">>, TokenQuit}

\* the exception the conversion of a typed square raises, if any
parse_raises(position) ==
    IF Len(position) < 2 THEN "IndexError"
    ELSE IF int_raises(position[2]) THEN "ValueError"
    ELSE ""

\* (8 - int(position[1]), ord(position[0].lower()) - ord("a"))
parse_square(position) ==
    <<BoardSize - int(position[2]), ord(lower(position[1])) - ord("a")>>

\* one pass of the loop on white's turn, where both prompts are answered
HumanMove ==
    /\ pc = "main"
    /\ current_turn = "white"
    /\ moves < MaxMoves
    /\ \E move_from \in HumanInputs, move_to \in HumanInputs :
          IF lower_str(move_from) = TokenQuit \/ lower_str(move_to) = TokenQuit
          THEN /\ pc' = "done"
               /\ last' = [NoCall EXCEPT !.op = "quit"]
               /\ UNCHANGED <<board, current_turn, moves>>
          ELSE IF parse_raises(move_from) # "" \/ parse_raises(move_to) # ""
          THEN /\ pc' = "main"
               /\ last' = [NoCall EXCEPT
                              !.op = "input_error",
                              !.message = IF parse_raises(move_from) # ""
                                          THEN parse_raises(move_from)
                                          ELSE parse_raises(move_to)]
               /\ UNCHANGED <<board, current_turn, moves>>
          ELSE \E r \in {make_move(board, current_turn,
                                   parse_square(move_from),
                                   parse_square(move_to))} :
               /\ pc' = "main"
               /\ board' = r.board
               /\ current_turn' = r.turn
               /\ moves' = IF r.success THEN moves + 1 ELSE moves
               /\ last' = [NoCall EXCEPT
                              !.op = "human_move",
                              !.from_pos = parse_square(move_from),
                              !.to_pos = parse_square(move_to),
                              !.success = r.success,
                              !.message = r.message,
                              !.touched = r.touched]
    /\ UNCHANGED <<difficulty, search_depth, engine_in, engine_out, output>>

\* make_computer_move starts: get_computer_move sends the position; the
\* command holds no "go", so send_to_stockfish returns at once
SendPosition ==
    /\ pc = "main"
    /\ current_turn # "white"
    /\ moves < MaxMoves
    /\ \E command \in {position_command(get_fen(board, current_turn))} :
          /\ ~send_waits(command)
          /\ engine_in' = Append(engine_in, command)
    /\ pc' = "send_go"
    /\ UNCHANGED <<board, current_turn, last, moves, difficulty, search_depth,
                   engine_out, output>>

\* "info depth 1"
InfoLines == {<<"i", "n", "f", "o", " ", "d", "e", "p", "t", "h", " ", "1">>}

InfoSeqs == UNION {[1 .. n -> InfoLines] : n \in 0 .. MaxNoise}

\* moves the engine may name: e7e5, g8f6, the castling e8g8, the white
\* move d2d4, e5e4 from an empty square, and the null move 0000
CoordinateTokens ==
    {<<"e", "7", "e", "5">>, <<"g", "8", "f", "6">>, <<"e", "8", "g", "8">>,
     <<"d", "2", "d", "4">>, <<"e", "5", "e", "4">>, <<"0", "0", "0", "0">>}

\* tokens that are not two squares: (none) and the cut-off e7e
OtherTokens ==
    {<<"(", "n", "o", "n", "e", ")">>, <<"e", "7", "e">>}

\* "bestmove <token>", or the marker alone
BestmoveLines ==
    {TokenBestmove \o <<" ">> \o t : t \in CoordinateTokens \cup OtherTokens}
    \cup {TokenBestmove}

\* what the engine prints after a "go": some info lines, then a best-move
\* line, or nothing more (its stdout closes)
GoScripts ==
    InfoSeqs \cup {n \o <<l>> : n \in InfoSeqs, l \in BestmoveLines}

\* the search command is sent; it holds "go", so send_to_stockfish reads
SendGo ==
    /\ pc = "send_go"
    /\ send_waits(go_command(search_depth))
    /\ engine_in' = Append(engine_in, go_command(search_depth))
    /\ engine_out' \in {engine_out \o g : g \in GoScripts}
    /\ pc' = "wait_bestmove"
    /\ UNCHANGED <<board, current_turn, last, moves, difficulty, search_depth,
                   output>>

\* one turn of the loop of send_to_stockfish reading for "bestmove"
ReadMoveLine ==
    /\ pc = "wait_bestmove"
    /\ output' = strip(readline(engine_out))
    /\ engine_out' = after_readline(engine_out)
    /\ pc' = IF startswith(output', TokenBestmove)
             THEN "got_bestmove" ELSE "wait_bestmove"
    /\ UNCHANGED <<board, current_turn, last, moves, difficulty, search_depth,
                   engine_in>>

\* the exception that escapes make_computer_move for a best-move line:
\* output.split()[1], then the subscripts and conversions of the decoding
computer_move_raises(line) ==
    IF Len(split(line)) < 2 THEN "IndexError"
    ELSE decode_raises(split(line)[2])

\* a variant that writes the engine's move to the grid itself
make_computer_move_unchecked(b, turn, line) ==
    IF computer_move_raises(line) # ""
    THEN [raised |-> computer_move_raises(line), success |-> FALSE,
          message |-> "", board |-> b, turn |-> turn, move |-> <<>>,
          from_pos |-> <<0, 0>>, to_pos |-> <<0, 0>>, touched |-> {}]
    ELSE LET move == split(line)[2]
             r == make_move(b, turn, decode_from(move), decode_to(move))
             piece == get_piece(b, Row(decode_from(move)), Col(decode_from(move)))
             writes == r.message \in {MsgWrongTurn(turn), MsgInvalidMove}
         IN  [raised |-> "", success |-> r.success, message |-> r.message,
              board |-> IF writes
                        THEN execute_move(b, decode_from(move), decode_to(move),
                                          piece)
                        ELSE r.board,
              turn |-> r.turn, move |-> move,
              from_pos |-> decode_from(move), to_pos |-> decode_to(move),
              touched |-> r.touched]

\* make_computer_move once the best-move line is read: the token is taken
\* from the line and decoded, and make_move is called with the two squares
make_computer_move(b, turn, line) ==
    IF computer_move_raises(line) # ""
    THEN [raised |-> computer_move_raises(line), success |-> FALSE,
          message |-> "", board |-> b, turn |-> turn, move |-> <<>>,
          from_pos |-> <<0, 0>>, to_pos |-> <<0, 0>>, touched |-> {}]
    ELSE LET move == split(line)[2]
             r == make_move(b, turn, decode_from(move), decode_to(move))
         IN  [raised |-> "", success |-> r.success, message |-> r.message,
              board |-> r.board, turn |-> r.turn, move |-> move,
              from_pos |-> decode_from(move), to_pos |-> decode_to(move),
              touched |-> r.touched]

\* the rest of make_computer_move once the best-move line is read, and the
\* test main() makes of its result: an exception ends the program, False
\* ends the loop
FinishComputerMove ==
    /\ pc = "got_bestmove"
    /\ \E r \in {make_computer_move(board, current_turn, output)} :
          /\ pc' = IF r.raised # "" THEN "crashed"
                   ELSE IF r.success THEN "main" ELSE "done"
          /\ board' = r.board
          /\ current_turn' = r.turn
          /\ moves' = IF r.success THEN moves + 1 ELSE moves
          /\ last' = [NoCall EXCEPT
                         !.op = "make_computer_move",
                         !.from_pos = r.from_pos,
                         !.to_pos = r.to_pos,
                         !.success = r.success,
                         !.message = IF r.raised # "" THEN r.raised
                                     ELSE r.message,
                         !.touched = r.touched,
                         !.text = r.move]
    /\ UNCHANGED <<difficulty, search_depth, engine_in, engine_out, output>>

NextSession ==
    \/ PopenFails
    \/ SendUci
    \/ ReadHandshakeLine
    \/ ConfigureRejects
    \/ SendSkillLevel
    \/ SendLimitStrength
    \/ HumanMove
    \/ SendPosition
    \/ SendGo
    \/ ReadMoveLine
    \/ FinishComputerMove

SessionSpec == InitSession /\ [][NextSession]_vars

\* the steps the program takes by itself; the player may leave a prompt
\* unanswered for ever
ProgramStep ==
    \/ PopenFails
    \/ SendUci
    \/ ReadHandshakeLine
    \/ ConfigureRejects
    \/ SendSkillLevel
    \/ SendLimitStrength
    \/ SendPosition
    \/ SendGo
    \/ ReadMoveLine
    \/ FinishComputerMove

\* the single thread of the program keeps running: a step of its own that
\* stays possible is taken
FairSessionSpec == SessionSpec /\ WF_vars(ProgramStep)

-----------------------------------------------------------------------------
(* utils.py: the two conversions, and a caller that applies them *)

\* a variant that counts the ranks from the top
convert_position_rank_from_top(position) ==
    <<int(position[2]) - 1, ord(lower(position[1])) - ord("a")>>

\* convert_position(position): (row, col)
convert_position(position) ==
    <<BoardSize - int(position[2]), ord(lower(position[1])) - ord("a")>>

\* convert_position_to_uci(row, col)
convert_position_to_uci(row, col) ==
    <<chr(col + ord("a"))>> \o str(BoardSize - row)

\* a board as constructed; no call of utils.py has been made
InitUtils ==
    /\ board = setup_board
    /\ current_turn = "white"
    /\ pc = "idle"
    /\ last = NoCall
    /\ moves = 0
    /\ difficulty = DefaultDifficulty
    /\ search_depth = depth(DefaultDifficulty)
    /\ engine_in = <<CmdUci>> \o configure_commands(DefaultDifficulty)
    /\ engine_out = <<>>
    /\ output = TokenUciok

\* a caller encodes a square of the board
CallConvertPositionToUci ==
    /\ pc = "idle"
    /\ \E row \in Idx, col \in Idx :
          last' = [NoCall EXCEPT
                      !.op = "convert_position_to_uci",
                      !.from_pos = <<row, col>>,
                      !.text = convert_position_to_uci(row, col)]
    /\ pc' = "encoded"
    /\ UNCHANGED <<board, current_turn, moves, difficulty, search_depth,
                   engine_in, engine_out, output>>

\* the caller decodes the text with convert_position
CallConvertPosition ==
    /\ pc = "encoded"
    /\ last' = [last EXCEPT
                   !.op = "convert_position",
                   !.to_pos = convert_position(last.text)]
    /\ pc' = "converted"
    /\ UNCHANGED <<board, current_turn, moves, difficulty, search_depth,
                   engine_in, engine_out, output>>

\* the text, written twice, is decoded as make_computer_move decodes a
\* move token
DecodeAsMove ==
    /\ pc = "converted"
    /\ decode_raises(last.text \o last.text) = ""
    /\ last' = [last EXCEPT
                   !.op = "decode",
                   !.from_pos = decode_from(last.text \o last.text),
                   !.to_pos = decode_to(last.text \o last.text)]
    /\ pc' = "decoded"
    /\ UNCHANGED <<board, current_turn, moves, difficulty, search_depth,
                   engine_in, engine_out, output>>

NextUtils ==
    \/ CallConvertPositionToUci
    \/ CallConvertPosition
    \/ DecodeAsMove

UtilsSpec == InitUtils /\ [][NextUtils]_vars

-----------------------------------------------------------------------------
(* Vocabulary of the properties *)

OnBoard(pos) == Row(pos) \in Idx /\ Col(pos) \in Idx

\* the occupant of a square of the grid, None off the grid
At(b, pos) == IF OnBoard(pos) THEN b[Row(pos)][Col(pos)] ELSE None

Sign(x) == IF x > 0 THEN 1 ELSE IF x < 0 THEN -1 ELSE 0

\* from_pos and to_pos differ and lie on one rank, one file or one diagonal
OnLine(from_pos, to_pos) ==
    /\ from_pos # to_pos
    /\ \/ Row(from_pos) = Row(to_pos)
       \/ Col(from_pos) = Col(to_pos)
       \/ Abs(Row(from_pos) - Row(to_pos)) = Abs(Col(from_pos) - Col(to_pos))

\* the squares strictly between two squares of one line
Between(from_pos, to_pos) ==
    LET dr == Sign(Row(to_pos) - Row(from_pos))
        dc == Sign(Col(to_pos) - Col(from_pos))
        n == Max(Abs(Row(to_pos) - Row(from_pos)),
                 Abs(Col(to_pos) - Col(from_pos)))
    IN  {<<Row(from_pos) + k * dr, Col(from_pos) + k * dc>> : k \in 1 .. (n - 1)}

Sliders == {"rook", "bishop", "queen"}

\* the line a piece of that kind may slide along
SlidesAlong(kind, from_pos, to_pos) ==
    /\ from_pos # to_pos
    /\ CASE kind = "rook" ->
               Row(from_pos) = Row(to_pos) \/ Col(from_pos) = Col(to_pos)
         [] kind = "bishop" ->
               Abs(Row(from_pos) - Row(to_pos)) = Abs(Col(from_pos) - Col(to_pos))
         [] kind = "queen" -> OnLine(from_pos, to_pos)
         [] OTHER -> FALSE

PieceCount(b) == Cardinality({pos \in Idx \X Idx : At(b, pos) # None})

\* the step is a call of make_move, whatever it returned
IsMakeMove == last'.op = "make_move"

\* the step is a call of make_move that returned success
Accepted == last'.op = "make_move" /\ last'.success

\* the step is a call of make_move that returned failure
Rejected == last'.op = "make_move" /\ ~last'.success

-----------------------------------------------------------------------------
(* C1: a rook, bishop or queen move along its line is rejected whenever a   *)
(* square strictly between source and destination is occupied, whatever    *)
(* the occupant's colour; from the initial position the rook's             *)
(* (7,0)->(0,0) is rejected. (The mover is of the colour to move: the call *)
(* gets as far as is_valid_move.)                                          *)

C1_BlockedSliderRejected ==
    [][ /\ IsMakeMove
        /\ OnBoard(last'.from_pos) /\ OnBoard(last'.to_pos)
        /\ At(board, last'.from_pos).piece_type \in Sliders
        /\ At(board, last'.from_pos).color = current_turn
        /\ SlidesAlong(At(board, last'.from_pos).piece_type,
                       last'.from_pos, last'.to_pos)
        /\ \E pos \in Between(last'.from_pos, last'.to_pos) :
              At(board, pos) # None
        => ~last'.success /\ last'.message = MsgInvalidMove ]_vars

-----------------------------------------------------------------------------
(* C2: a pawn's two-square forward move is accepted only if the pawn has    *)
(* not moved and both the square it passes and the destination are empty.  *)

C2_DoubleStepNeedsEmptyPath ==
    [][ /\ Accepted
        /\ At(board, last'.from_pos).piece_type = "pawn"
        /\ Col(last'.to_pos) = Col(last'.from_pos)
        /\ Abs(Row(last'.to_pos) - Row(last'.from_pos)) = 2
        => /\ ~At(board, last'.from_pos).has_moved
           /\ At(board, last'.to_pos) = None
           /\ \A pos \in Between(last'.from_pos, last'.to_pos) :
                 At(board, pos) = None ]_vars

-----------------------------------------------------------------------------
(* C3: whenever make_move returns failure, the grid, every has_moved flag   *)
(* and current_turn are what they were before the call.                    *)

C3_FailureLeavesStateUnchanged ==
    [][ Rejected => board' = board /\ current_turn' = current_turn ]_vars

\* after an accepted move, a call by the side to move that names one of its
\* own pieces is turned down as an invalid move
C3_Witness ==
    /\ last.op = "make_move"
    /\ last.message = MsgInvalidMove
    /\ ~last.success
    /\ last.piece.color = current_turn
    /\ moves > 0

-----------------------------------------------------------------------------
(* C4: current_turn is always white or black, starts as white, changes to   *)
(* the other colour on each accepted make_move and on no other step.       *)

C4_TurnFlipsOnlyOnAcceptedMove ==
    /\ current_turn = "white"
    /\ [](current_turn \in Colors)
    /\ [][ IF Accepted
           THEN current_turn' \in Colors /\ current_turn' # current_turn
           ELSE current_turn' = current_turn ]_vars

\* two moves have been accepted, the second one black's, and the turn is
\* white's again
C4_Witness ==
    /\ last.op = "make_move"
    /\ last.success
    /\ last.piece.color = "black"
    /\ moves = 2
    /\ current_turn = "white"

-----------------------------------------------------------------------------
(* C5: after an accepted make_move(from, to) the source is empty, the       *)
(* destination holds the piece that was at the source with has_moved true, *)
(* every other square is unchanged, and the number of pieces drops by one  *)
(* if the destination was occupied and is unchanged otherwise.             *)

C5_AcceptedMoveEffect ==
    [][ Accepted =>
        LET f == last'.from_pos
            t == last'.to_pos
        IN  /\ OnBoard(f) /\ OnBoard(t)
            /\ At(board', f) = None
            /\ At(board', t) = [At(board, f) EXCEPT !.has_moved = TRUE]
            /\ At(board, f) # None
            /\ \A pos \in Idx \X Idx :
                  pos \notin {f, t} => At(board', pos) = At(board, pos)
            /\ PieceCount(board') =
                  IF At(board, t) # None
                  THEN PieceCount(board) - 1 ELSE PieceCount(board) ]_vars

\* an accepted move onto an occupied square: a capture
C5_Witness ==
    /\ last.op = "make_move"
    /\ last.success
    /\ last.target # None
    /\ PieceCount(board) = PieceCount(setup_board) - 1

-----------------------------------------------------------------------------
(* C6: make_move answers with the first check that applies, in the order    *)
(* invalid position, no piece at the source, wrong turn, invalid move,     *)
(* accepted; so no move is accepted from an empty source or for a piece    *)
(* that is not of the colour to move.                                      *)

C6_Expected(b, turn, f, t) ==
    IF ~OnBoard(f) \/ ~OnBoard(t) THEN "Invalid position"
    ELSE IF At(b, f) = None THEN "No piece at the starting position"
    ELSE IF At(b, f).color # turn
    THEN (IF turn = "white" THEN "It's white's turn" ELSE "It's black's turn")
    ELSE IF ~is_valid_move(b, f, t, At(b, f)) THEN "Invalid move"
    ELSE "Move successful"

C6_FirstApplicableCheckDecides ==
    [][ IsMakeMove =>
        /\ last'.message =
              C6_Expected(board, current_turn, last'.from_pos, last'.to_pos)
        /\ last'.success <=> last'.message = "Move successful"
        /\ last'.success =>
              /\ At(board, last'.from_pos) # None
              /\ At(board, last'.from_pos).color = current_turn ]_vars

\* from the initial position a call that names a black piece is turned
\* down as white's turn
C6_Witness ==
    /\ board = setup_board
    /\ last.op = "make_move"
    /\ last.piece.color = "black"
    /\ ~last.success
    /\ last.message = "It's white's turn"

-----------------------------------------------------------------------------
(* C7: for every coordinate pair with a row or column outside 0..7,         *)
(* negative ones included, get_piece returns no piece and raises nothing;  *)
(* a make_move whose source or destination is such a pair is turned down   *)
(* as an invalid position and never subscripts the grid at that pair.      *)

\* coordinates around the grid, beyond the reach of a negative subscript
ProbeCoords == (-(BoardSize + 1)) .. (BoardSize + 1)

C7_OutOfBoundsIsNoPiece ==
    /\ pc = "idle" =>
          \A row \in ProbeCoords, col \in ProbeCoords :
             ~OnBoard(<<row, col>>) => get_piece(board, row, col) = None
    /\ last.op = "get_piece" /\ ~OnBoard(last.from_pos) =>
          last.piece = None /\ last.touched = {}
    /\ last.op = "make_move"
       /\ (~OnBoard(last.from_pos) \/ ~OnBoard(last.to_pos)) =>
          /\ ~last.success
          /\ last.message = "Invalid position"
          /\ last.from_pos \notin last.touched
          /\ last.to_pos \notin last.touched
    /\ \A pos \in last.touched : OnBoard(pos)

\* black, to move, asks to move its rook from (0,0) off the grid to (-1,0)
C7_Witness ==
    /\ last.op = "make_move"
    /\ last.from_pos = <<0, 0>>
    /\ last.to_pos = <<-1, 0>>
    /\ last.piece.color = current_turn
    /\ current_turn = "black"
    /\ last.message = "Invalid position"

-----------------------------------------------------------------------------
(* C8: no accepted move ends on a square held by a piece of the mover's     *)
(* colour; so a move whose source is its destination is never accepted,    *)
(* for any kind of piece.                                                   *)

C8_NoMoveOntoOwnPiece ==
    [][ Accepted =>
        /\ last'.from_pos # last'.to_pos
        /\ \/ At(board, last'.to_pos) = None
           \/ At(board, last'.to_pos).color
                 # At(board, last'.from_pos).color ]_vars

\* the side to move asks to "move" its rook, bishop or queen to the square
\* it stands on, and is turned down
C8_Witness ==
    /\ last.op = "make_move"
    /\ last.from_pos = last.to_pos
    /\ last.piece.piece_type \in Sliders
    /\ last.piece.color = current_turn
    /\ ~last.success
    /\ last.message = MsgInvalidMove

-----------------------------------------------------------------------------
(* C9: a pawn move is never accepted sideways or backward for its colour    *)
(* (white moves to lower rows, black to higher); a one-step forward        *)
(* diagonal pawn move of the side to move is accepted exactly when the     *)
(* destination holds a piece of the other colour, a straight one-step      *)
(* forward move exactly when the destination is empty; from the initial    *)
(* position (6,4)->(4,4) is accepted and (6,4)->(3,4) is rejected.         *)

\* rows gained toward the far side by a piece of that colour
Forward(color, from_pos, to_pos) ==
    IF color = "white"
    THEN Row(from_pos) - Row(to_pos) ELSE Row(to_pos) - Row(from_pos)

C9_PawnRule ==
    [][ /\ IsMakeMove
        /\ OnBoard(last'.from_pos) /\ OnBoard(last'.to_pos)
        /\ At(board, last'.from_pos).piece_type = "pawn"
        =>
        LET f == last'.from_pos
            t == last'.to_pos
            pawn == At(board, f)
            fwd == Forward(pawn.color, f, t)
            side == Abs(Col(t) - Col(f))
        IN  /\ fwd <= 0 => ~last'.success
            /\ pawn.color = current_turn /\ fwd = 1 /\ side = 1 =>
                  (last'.success <=>
                      At(board, t) # None /\ At(board, t).color # pawn.color)
            /\ pawn.color = current_turn /\ fwd = 1 /\ side = 0 =>
                  (last'.success <=> At(board, t) = None)
            /\ board = setup_board /\ f = <<6, 4>> /\ t = <<4, 4>> =>
                  last'.success
            /\ board = setup_board /\ f = <<6, 4>> /\ t = <<3, 4>> =>
                  ~last'.success ]_vars

\* a pawn has captured: an accepted one-step diagonal move onto a piece of
\* the other colour
C9_Witness ==
    /\ last.op = "make_move"
    /\ last.success
    /\ last.piece.piece_type = "pawn"
    /\ Abs(Col(last.to_pos) - Col(last.from_pos)) = 1
    /\ last.target # None
    /\ last.target.color # last.piece.color

-----------------------------------------------------------------------------
(* C10: when a ChessBoard is created with an unrecognized difficulty, the   *)
(* configuration error is raised before any command has been sent to the   *)
(* engine: no command precedes the rejection.                              *)

C10_NoCommandBeforeConfigurationError ==
    pc = "failed" /\ last.message = MsgValueError => engine_in = <<>>

-----------------------------------------------------------------------------
(* Vocabulary of the properties of the session *)

FileLetters == {"a", "b", "c", "d", "e", "f", "g", "h"}

RankDigits == {"1", "2", "3", "4", "5", "6", "7", "8"}

\* two file-letter/rank-digit pairs
WellFormedToken(t) ==
    /\ Len(t) = 4
    /\ t[1] \in FileLetters /\ t[3] \in FileLetters
    /\ t[2] \in RankDigits /\ t[4] \in RankDigits

\* the word after the marker of a best-move line, <<>> if there is none
MoveToken(line) == IF Len(split(line)) < 2 THEN <<>> ELSE split(line)[2]

\* the square a file letter and a rank digit name
SquareOf(file, rank) ==
    <<CHOOSE r \in Idx : str(BoardSize - r) = <<rank>>,
      CHOOSE c \in Idx : chr(ord("a") + c) = file>>

\* make_computer_move is running
InComputerMove == pc \in {"send_go", "wait_bestmove", "got_bestmove"}

-----------------------------------------------------------------------------
\* C11: when the engine's best-move line names a well-formed coordinate
\* move that make_move rejects, make_computer_move returns False without
\* raising (the loop ends, the program does not crash) and the board, the
\* has_moved flags and current_turn are as before; and whenever the grid
\* changes during the computer's turn, the change is the one make_move
\* makes for an accepted move between the two named squares.
C11_RejectedEngineMoveChangesNothing ==
    [][/\ (/\ pc = "got_bestmove"
           /\ WellFormedToken(MoveToken(output))
           /\ ~make_move(board, current_turn,
                         SquareOf(MoveToken(output)[1], MoveToken(output)[2]),
                         SquareOf(MoveToken(output)[3], MoveToken(output)[4])
                        ).success)
          => /\ pc' = "done"
             /\ last'.op = "make_computer_move"
             /\ ~last'.success
             /\ last'.message \in {MsgNoPiece, MsgWrongTurn(current_turn),
                                   MsgInvalidMove}
             /\ board' = board
             /\ current_turn' = current_turn
       /\ (InComputerMove /\ (board' # board \/ current_turn' # current_turn))
          => /\ WellFormedToken(MoveToken(output))
             /\ \E r \in {make_move(board, current_turn,
                           SquareOf(MoveToken(output)[1], MoveToken(output)[2]),
                           SquareOf(MoveToken(output)[3], MoveToken(output)[4]))} :
                   r.success /\ board' = r.board /\ current_turn' = r.turn
      ]_vars

\* the engine named the castling e8g8 and the loop ended with the board of
\* the human's move
C11_Witness ==
    /\ pc = "done"
    /\ last.op = "make_computer_move"
    /\ last.text = <<"e", "8", "g", "8">>
    /\ last.message = MsgInvalidMove
    /\ moves = 1

-----------------------------------------------------------------------------
\* C12: during a move request, a best-move line without a token or with a
\* token that is not two file-letter/rank-digit pairs, and a read that
\* meets the end of the engine's output, each end the attempt as a failed
\* automated move: make_computer_move returns False (the loop ends, the
\* program does not crash) and the board is unchanged.
C12_EngineFailureIsAFailedMove ==
    [][/\ (pc = "got_bestmove" /\ ~WellFormedToken(MoveToken(output)))
          => /\ pc' = "done"
             /\ last'.op = "make_computer_move"
             /\ ~last'.success
             /\ last'.message \notin {"IndexError", "ValueError"}
             /\ board' = board
       /\ (pc = "wait_bestmove" /\ engine_out = <<>>)
          => /\ pc' = "done"
             /\ board' = board
      ]_vars

-----------------------------------------------------------------------------
\* C13: once the handshake waits for "uciok" and the engine's output has
\* ended, initialize_stockfish eventually ends with a fatal startup error;
\* and a missing executable ends the constructor with the fatal error
\* "Stockfish executable not found".
C13_HandshakeEndsWhenOutputCloses ==
    /\ (pc = "wait_uciok" /\ engine_out = <<>>) ~> (pc = "failed")
    /\ [][(pc = "initialize_stockfish" /\ engine_in' = engine_in)
          => (pc' = "failed" /\ last'.message = MsgNotFound)]_vars

-----------------------------------------------------------------------------
\* the number a tier's option command and search command must carry, written
\* in decimal
StrengthText(d) ==
    CASE d = "beginner" -> <<"3">>
      [] d = "intermediate" -> <<"1", "0">>
      [] d = "professional" -> <<"1", "5">>
      [] d = "top_star" -> <<"2", "0">>

DepthText(d) ==
    CASE d = "beginner" -> <<"5">>
      [] d = "intermediate" -> <<"1", "0">>
      [] d = "professional" -> <<"1", "5">>
      [] d = "top_star" -> <<"2", "0">>

\* the commands before the first move request
Preamble(d) == <<CmdUci, SkillLevelPrefix \o StrengthText(d), CmdLimit>>

IsPositionCommand(c) ==
    /\ startswith(c, PositionPrefix)
    /\ ~startswith(c, GoPrefix)

IsGoCommand(c, d) == c = GoPrefix \o DepthText(d)

\* C14: with a recognized tier the commands sent so far are "uci", then
\* the two option commands, the first carrying the tier's strength value
\* (3, 10, 15, 20), then position and search commands in turn, every search
\* command carrying the tier's depth (5, 10, 15, 20); nothing follows "uci"
\* until a line holding "uciok" has been read, a position command is
\* followed at once by its search command, and nothing follows a search
\* command until a line starting with "bestmove" has been read.
C14_CommandsFollowProtocol ==
    difficulty \in Tiers =>
      /\ \A i \in DOMAIN engine_in :
            /\ i <= Len(Preamble(difficulty))
               => engine_in[i] = Preamble(difficulty)[i]
            /\ (i > Len(Preamble(difficulty)) /\ (i - Len(Preamble(difficulty))) % 2 = 1)
               => IsPositionCommand(engine_in[i])
            /\ (i > Len(Preamble(difficulty)) /\ (i - Len(Preamble(difficulty))) % 2 = 0)
               => IsGoCommand(engine_in[i], difficulty)
      /\ pc = "initialize_stockfish" => engine_in = <<>>
      /\ pc = "wait_uciok" => engine_in = <<CmdUci>>
      /\ pc = "configure_difficulty"
         => (engine_in = <<CmdUci>> /\ has_uciok(output))
      /\ pc = "configure_limit" => Len(engine_in) = 2
      /\ (Len(engine_in) > Len(Preamble(difficulty))
          /\ IsPositionCommand(engine_in[Len(engine_in)]))
         <=> pc = "send_go"
      /\ (Len(engine_in) > Len(Preamble(difficulty))
          /\ IsGoCommand(engine_in[Len(engine_in)], difficulty))
         => \/ pc = "wait_bestmove"
            \/ startswith(output, TokenBestmove)

\* a beginner session in which a move request was sent and answered
C14_Witness ==
    /\ difficulty = "beginner"
    /\ Len(engine_in) = 5
    /\ pc = "main"
    /\ moves = 2

-----------------------------------------------------------------------------
(* Reading a position text back *)

\* the pieces of s between the separators
SplitOn(s, sep) ==
    LET cuts == {i \in DOMAIN s : s[i] = sep} \cup {0, Len(s) + 1}
        cut(k) == CHOOSE p \in cuts : Cardinality({q \in cuts : q < p}) = k
    IN  [k \in 1 .. (Cardinality(cuts) - 1) |->
            SubSeq(s, cut(k - 1) + 1, cut(k) - 1)]

IsDigit(ch) == \E i \in DOMAIN DigitChars : DigitChars[i] = ch

DigitValue(ch) == (CHOOSE i \in DOMAIN DigitChars : DigitChars[i] = ch) - 1

\* a rank field written out square by square, "." for an empty square
RECURSIVE Expand(_)
Expand(field) ==
    IF field = <<>> THEN <<>>
    ELSE IF IsDigit(Head(field))
    THEN [i \in 1 .. DigitValue(Head(field)) |-> "."] \o Expand(Tail(field))
    ELSE <<Head(field)>> \o Expand(Tail(field))

\* the rank fields of a position text
RankFields(fen) == SplitOn(split(fen)[1], "/")

\* the letter that stands for a piece, "." for None
Letter(piece) ==
    IF piece = None THEN "."
    ELSE LET l == CASE piece.piece_type = "pawn" -> <<"p", "P">>
                    [] piece.piece_type = "rook" -> <<"r", "R">>
                    [] piece.piece_type = "knight" -> <<"n", "N">>
                    [] piece.piece_type = "bishop" -> <<"b", "B">>
                    [] piece.piece_type = "queen" -> <<"q", "Q">>
                    [] piece.piece_type = "king" -> <<"k", "K">>
         IN  IF piece.color = "black" THEN l[1] ELSE l[2]

\* what a position text shows on the square named by a file letter and a
\* rank digit: the fields list the ranks from 8 down to 1, each from file
\* a to file h
ShownAt(fen, file, rank) ==
    Expand(RankFields(fen)[BoardSize + 1 - DigitValue(rank)])
        [ord(file) - ord("a") + 1]

-----------------------------------------------------------------------------
\* C15: for every square (row, col) of the board, convert_position_to_uci
\* gives the file letter chr(col + 'a') and the rank digit 8 - row, and
\* convert_position gives the square back; the decoding make_computer_move
\* applies to a move token gives the same indices as convert_position; and
\* the square the position text of get_fen shows under that file letter and
\* rank digit is the square of the grid the decoding returns.
C15_ConversionsRoundTrip ==
    [][/\ pc' = "encoded"
          => /\ Len(last'.text) = 2
             /\ ord(last'.text[1]) - ord("a") = Col(last'.from_pos)
             /\ <<last'.text[2]>> = str(BoardSize - Row(last'.from_pos))
       /\ pc' = "converted"
          => /\ last'.to_pos = last.from_pos
             /\ ShownAt(get_fen(board, current_turn),
                        last.text[1], last.text[2])
                  = Letter(board[Row(last'.to_pos)][Col(last'.to_pos)])
       /\ pc' = "decoded"
          => /\ last'.from_pos = last.to_pos
             /\ last'.to_pos = last.to_pos
      ]_vars

\* the square (6, 4) was written as e2, read back, and decoded as a move
C15_Witness ==
    /\ pc = "decoded"
    /\ last.text = <<"e", "2">>
    /\ last.from_pos = <<6, 4>>
    /\ last.to_pos = <<6, 4>>

-----------------------------------------------------------------------------
\* the occupants of a row of the grid, as letters
RowLetters(b, r) == [i \in 1 .. BoardSize |-> Letter(b[r][i - 1])]

NoAdjacentDigits(field) ==
    \A i \in 1 .. (Len(field) - 1) : ~(IsDigit(field[i]) /\ IsDigit(field[i + 1]))

\* C16: in every reachable game state get_fen gives 8 rank fields, in the
\* order of the rows 0..7; each field, digits read as runs of empty squares,
\* spells out the 8 occupants of its row, white in upper case and black in
\* lower case, the knight as n/N and the king as k/K; no field has two
\* digits side by side; the second word is w when current_turn is white
\* and b otherwise; and the text ends with the fixed fields "KQkq - 0 1".
C16_FenDescribesTheBoard ==
    pc = "idle" =>
      \E fen \in {get_fen(board, current_turn)} :
      \E words \in {split(fen)} :
      \E fields \in {RankFields(fen)} :
         /\ Len(fields) = BoardSize
         /\ \A r \in Idx :
               /\ Expand(fields[r + 1]) = RowLetters(board, r)
               /\ NoAdjacentDigits(fields[r + 1])
         /\ Len(words) = 6
         /\ words[2] = (IF current_turn = "white" THEN <<"w">> ELSE <<"b">>)
         /\ SubSeq(words, 3, 6)
               = <<(<<"K", "Q", "k", "q">>), (<<"-">>), (<<"0">>), (<<"1">>)>>
         /\ fen = join(<<"/">>, fields) \o <<" ">> \o words[2]
                     \o <<" ", "K", "Q", "k", "q", " ", "-", " ", "0", " ", "1">>

\* after e2-e4 and a reply: the fifth field is 4P3 and the seventh has a
\* gap between pawns
C16_Witness ==
    /\ pc = "idle"
    /\ moves = 2
    /\ current_turn = "white"
    /\ fen_rows(board)[5] = <<"4", "P", "3">>
    /\ fen_rows(board)[7] = <<"P", "P", "P", "P", "1", "P", "P", "P">>

-----------------------------------------------------------------------------
\* C17: a move of a knight of the side to move to a square of the board
\* that is empty or holds a piece of the other colour is accepted exactly
\* when (|row difference|, |col difference|) is (1, 2) or (2, 1), on every
\* reachable board: what stands on the other squares plays no part.
C17_KnightRule ==
    [][(/\ IsMakeMove
        /\ OnBoard(last'.from_pos) /\ OnBoard(last'.to_pos)
        /\ At(board, last'.from_pos).piece_type = "knight"
        /\ At(board, last'.from_pos).color = current_turn
        /\ \/ At(board, last'.to_pos) = None
           \/ At(board, last'.to_pos).color # current_turn)
       => (last'.success
           <=> <<Abs(Row(last'.from_pos) - Row(last'.to_pos)),
                 Abs(Col(last'.from_pos) - Col(last'.to_pos))>>
                  \in {<<1, 2>>, <<2, 1>>})
      ]_vars

\* the knight of b1 went to c3 over the pawns of b2 and c2
C17_Witness ==
    /\ last.op = "make_move"
    /\ last.success
    /\ last.piece.piece_type = "knight"
    /\ last.from_pos = <<7, 1>>
    /\ last.to_pos = <<5, 2>>
    /\ board[6][1] # None
    /\ board[6][2] # None

-----------------------------------------------------------------------------
\* the row on which setup_board puts the pawns of a colour
HomeRow(color) == IF color = "white" THEN 6 ELSE 1

\* direction = 1 if piece.color == "black" else -1
Direction(color) == IF color = "black" THEN 1 ELSE -1

\* the identities of the pieces on a grid, and of those that have moved
PieceIds(b) == {b[r][c].id : r \in Idx, c \in Idx} \ {None.id}

MovedIds(b) ==
    {b[pos[1]][pos[2]].id :
        pos \in {q \in Idx \X Idx : b[q[1]][q[2]].has_moved}}

\* C18: in every state reached from the initial position by make_move
\* calls, a piece whose has_moved is false stands on the square where
\* setup_board put it, so a pawn that may still make the double step is on
\* its home row (6 for white, 1 for black) and the destination of its
\* double step is on the board; and no step takes the has_moved of a piece
\* from true back to false.
C18_UnmovedPiecesAreAtHome ==
    /\ [](pc = "idle"
          => \A r \in Idx, c \in Idx :
                (board[r][c] # None /\ ~board[r][c].has_moved)
                => /\ setup_board[r][c].id = board[r][c].id
                   /\ board[r][c].piece_type = "pawn"
                      => /\ r = HomeRow(board[r][c].color)
                         /\ is_valid_position(
                               r + 2 * Direction(board[r][c].color), c))
    /\ [][\/ board' = board
          \/ (MovedIds(board) \cap PieceIds(board')) \subseteq MovedIds(board')
      ]_vars

\* after two accepted moves the pawn of e2 stands on e4 with has_moved
\* true, and the pawn of a2 is still at home with has_moved false
C18_Witness ==
    /\ pc = "idle"
    /\ At(board, <<4, 4>>).piece_type = "pawn"
    /\ At(board, <<4, 4>>).has_moved
    /\ ~At(board, <<6, 0>>).has_moved
    /\ At(board, <<6, 0>>).piece_type = "pawn"
    /\ moves = 2

-----------------------------------------------------------------------------
\* the pieces setup_board creates
CreatedPieces == {setup_board[r][c] : r \in Idx, c \in Idx} \ {None}

\* the squares of a grid that hold a piece
Occupied(b) == {pos \in Idx \X Idx : At(b, pos) # None}

\* the last row in the direction a colour's pawns move
FarRow(color) == IF color = "white" THEN 0 ELSE BoardSize - 1

\* C19: in every reachable state the pieces on the board are among the 32
\* that setup_board created, each with the colour and kind it was created
\* with, and no piece stands on two squares; a pawn that has reached the
\* far row is still a pawn, and no make_move call that names its square as
\* the source is accepted.
C19_PiecesAreConserved ==
    /\ [](pc = "idle"
          => /\ \A pos \in Occupied(board) :
                   [At(board, pos) EXCEPT !.has_moved = FALSE] \in CreatedPieces
             /\ Cardinality(CreatedPieces) = 32
             /\ Cardinality(Occupied(board)) = Cardinality(PieceIds(board)))
    /\ [][(/\ IsMakeMove
           /\ OnBoard(last'.from_pos)
           /\ At(board, last'.from_pos).piece_type = "pawn"
           /\ Row(last'.from_pos) = FarRow(At(board, last'.from_pos).color))
          => ~last'.success
      ]_vars

\* the white pawn that walked from a2 to the far row is asked, on white's
\* turn, to move on, and the call is turned down
C19_Witness ==
    /\ last.op = "make_move"
    /\ last.piece.piece_type = "pawn"
    /\ last.piece.color = "white"
    /\ last.piece.id = setup_board[6][0].id
    /\ Row(last.from_pos) = 0
    /\ current_turn = "white"
    /\ ~last.success
    /\ last.message = MsgInvalidMove
    /\ moves = Len(Opening) + 2

-----------------------------------------------------------------------------
\* the move requests sent so far: the position commands after the preamble
Queries == (Len(engine_in) - Len(Preamble(difficulty)) + 1) \div 2

\* the step is an answer to the prompts of main: it starts at the top of
\* the loop and sends nothing to the engine
IsHumanInput ==
    /\ pc = "main"
    /\ engine_in' = engine_in
    /\ last'.op \in {"human_move", "input_error", "quit"}

\* C20: in the loop of main the engine is sent a position only when
\* current_turn is black, every position sent names b as the side to move,
\* and every move make_computer_move applies is the move of a black piece;
\* the prompts are answered only when current_turn is white; a rejected or
\* malformed human move leaves the turn white, the board and the commands
\* sent as they were, and the loop at its top; move requests and accepted
\* human moves alternate (the n-th request follows the n-th accepted human
\* move and n - 1 accepted engine moves); and when make_computer_move
\* returns False the loop ends and nothing more happens.
C20_LoopAlternates ==
    /\ [](difficulty \in Tiers
          => /\ \A i \in DOMAIN engine_in :
                   IsPositionCommand(engine_in[i])
                   => (Len(split(engine_in[i])) > 3
                       /\ split(engine_in[i])[4] = <<"b">>)
             /\ (pc = "main" /\ current_turn = "white") => moves = 2 * Queries
             /\ (pc = "main" /\ current_turn = "black")
                => moves = 2 * Queries + 1
             /\ pc \in {"send_go", "wait_bestmove", "got_bestmove", "crashed"}
                => (moves = 2 * Queries - 1 /\ current_turn = "black")
             /\ pc = "done"
                => \/ last.op = "quit" /\ current_turn = "white"
                      /\ moves = 2 * Queries
                   \/ last.op = "make_computer_move" /\ ~last.success
                      /\ current_turn = "black" /\ moves = 2 * Queries - 1)
    /\ [][/\ pc # "done"
          /\ engine_in' # engine_in /\ pc \in {"main", "send_go"}
             => current_turn = "black"
          /\ (last'.op = "make_computer_move" /\ last'.success)
             => /\ current_turn = "black"
                /\ At(board, last'.from_pos).color = "black"
                /\ At(board', last'.to_pos).id = At(board, last'.from_pos).id
                /\ pc' = "main"
          /\ (pc = "got_bestmove" /\ pc' # "crashed" /\ ~last'.success)
             => pc' = "done"
          /\ IsHumanInput => current_turn = "white"
          /\ (IsHumanInput
              /\ \/ last'.op = "input_error"
                 \/ last'.op = "human_move" /\ ~last'.success)
             => /\ current_turn' = "white"
                /\ board' = board
                /\ engine_in' = engine_in
                /\ pc' = "main"
      ]_vars

\* after the human's move the engine named the white move d2d4: it was
\* turned down as out of turn and the loop ended
C20_Witness ==
    /\ pc = "done"
    /\ last.op = "make_computer_move"
    /\ last.text = <<"d", "2", "d", "4">>
    /\ last.message = MsgWrongTurn("black")
    /\ current_turn = "black"
    /\ moves = 1
    /\ Queries = 1

====
